---- MODULE Spec2Model ----
(***************************************************************************)
(* Model of the account-leaf extraction of CASTLE_Geth_test:               *)
(*   extract_account_leaves.py  (decode_compact_encoding, nibbles_to_bytes,*)
(*                               analyze_account_leaves)                   *)
(* Bytes are integers 0..255, nibbles 0..15.  Text (hex strings) is a      *)
(* sequence of characters: 0..15 is a hexadecimal digit, HEXX the letter   *)
(* 'x' of a "0x" prefix and BADCHAR any other character.                   *)
(* Python integers are arbitrary precision: they are kept as base-256      *)
(* digit strings, most significant digit first, without leading zeros      *)
(* (<<>> is 0).                                                            *)
(***************************************************************************)
EXTENDS Integers, Sequences, FiniteSets, TLC

VARIABLES df, pos, leaves, pc, mode, p, f, key, nibbles, is_leaf, cpc

vars == <<df, pos, leaves, pc, mode, p, f, key, nibbles, is_leaf, cpc>>
pipeVars == <<df, pos, leaves, pc>>
compactVars == <<mode, p, f, key, nibbles, is_leaf, cpc>>

\* ------------------------------------------------------------------ bounds
MaxNibbles == 3
MaxKeyBytes == 3
MaxRows == 2

\* ------------------------------------------------------------- characters
BADCHAR == 16
HEXX == 17

Nibble == 0..15
Byte == 0..255

\* ------------------------------------------------------- decoded values
\* An RLP-decoded value is a byte string or a list of decoded values.
B(bs) == [list |-> FALSE, bytes |-> bs, items |-> <<>>]
L(its) == [list |-> TRUE, bytes |-> <<>>, items |-> its]

is_list(data) == data.list

\* Python len() of a bytes object or of a list.
PyLen(data) == IF data.list THEN Len(data.items) ELSE Len(data.bytes)

\* ------------------------------------------------------ nibbles_to_bytes
RECURSIVE PackPairs(_)
PackPairs(ns) ==
  IF Len(ns) < 2 THEN <<>>
  ELSE <<ns[1] * 16 + ns[2]>> \o PackPairs(SubSeq(ns, 3, Len(ns)))

nibbles_to_bytes_lowfirst(ns) ==
  IF Len(ns) % 2 # 0 THEN [none |-> TRUE, bytes |-> <<>>]
  ELSE [none |-> FALSE,
        bytes |-> [i \in 1..(Len(ns) \div 2) |-> ns[2*i] * 16 + ns[2*i - 1]]]

nibbles_to_bytes_nocheck(ns) ==
  [none |-> FALSE, bytes |-> PackPairs(ns)]

nibbles_to_bytes(ns) ==
  IF Len(ns) % 2 # 0 THEN [none |-> TRUE, bytes |-> <<>>]
  ELSE [none |-> FALSE, bytes |-> PackPairs(ns)]

\* ----------------------------------------------- decode_compact_encoding
\* for byte in key[1:]: append(byte >> 4); append(byte & 0x0F)
RECURSIVE BytesToNibbles(_)
BytesToNibbles(bs) ==
  IF bs = <<>> THEN <<>>
  ELSE <<bs[1] \div 16, bs[1] % 16>> \o BytesToNibbles(Tail(bs))

\* The argument is a decoded value: node[0] may be a byte string or a list.
\* Indexing a non-empty list yields an element that is not an integer, and
\* first_byte >> 4 raises TypeError.
decode_compact_encoding_oddleaf(k) ==
  IF PyLen(k) = 0 THEN [raise |-> FALSE, nibbles |-> <<>>, is_leaf |-> FALSE]
  ELSE IF k.list THEN [raise |-> TRUE, nibbles |-> <<>>, is_leaf |-> FALSE]
  ELSE LET first_byte == k.bytes[1]
           flag == first_byte \div 16
       IN [raise |-> FALSE,
           nibbles |-> (IF flag % 2 = 1 THEN <<first_byte % 16>> ELSE <<>>)
                        \o BytesToNibbles(Tail(k.bytes)),
           is_leaf |-> (flag % 2 = 1)]

decode_compact_encoding_nopad(k) ==
  IF PyLen(k) = 0 THEN [raise |-> FALSE, nibbles |-> <<>>, is_leaf |-> FALSE]
  ELSE IF k.list THEN [raise |-> TRUE, nibbles |-> <<>>, is_leaf |-> FALSE]
  ELSE LET first_byte == k.bytes[1]
           flag == first_byte \div 16
       IN [raise |-> FALSE,
           nibbles |-> <<first_byte % 16>> \o BytesToNibbles(Tail(k.bytes)),
           is_leaf |-> ((flag \div 2) % 2 = 1)]

decode_compact_encoding(k) ==
  IF PyLen(k) = 0 THEN [raise |-> FALSE, nibbles |-> <<>>, is_leaf |-> FALSE]
  ELSE IF k.list THEN [raise |-> TRUE, nibbles |-> <<>>, is_leaf |-> FALSE]
  ELSE LET first_byte == k.bytes[1]
           flag == first_byte \div 16
       IN [raise |-> FALSE,
           nibbles |-> (IF flag % 2 = 1 THEN <<first_byte % 16>> ELSE <<>>)
                        \o BytesToNibbles(Tail(k.bytes)),
           is_leaf |-> ((flag \div 2) % 2 = 1)]

\* Hex-prefix encoding of a nibble path and a leaf flag (specification 4.2):
\* the first byte's high nibble is 2*leaf + odd, its low nibble the first
\* nibble of an odd path or padding 0; the rest is packed two per byte.
encode_compact(path, leaf) ==
  LET odd == Len(path) % 2
      flag == (IF leaf THEN 2 ELSE 0) + odd
  IN IF odd = 1
       THEN <<flag * 16 + path[1]>> \o PackPairs(Tail(path))
       ELSE <<flag * 16>> \o PackPairs(path)

\* ------------------------------------------------- eth_utils: hex and text
\* A CSV cell is absent (NaN) or a text.
NaN == [isna |-> TRUE, str |-> <<>>]
Text(s) == [isna |-> FALSE, str |-> s]

\* eth_utils.remove_0x_prefix
remove_0x_prefix(s) ==
  IF Len(s) >= 2 /\ s[1] = 0 /\ s[2] = HEXX THEN SubSeq(s, 3, Len(s)) ELSE s

\* eth_utils.to_bytes(hexstr=h): len(h) of a float raises TypeError; a text
\* of odd length is padded with a leading zero digit; a character that is
\* not a hexadecimal digit makes unhexlify raise (a ValueError).
to_bytes(h) ==
  IF h.isna THEN [raise |-> TRUE, bytes |-> <<>>]
  ELSE LET padded == IF Len(h.str) % 2 = 1
                       THEN <<0, HEXX, 0>> \o remove_0x_prefix(h.str)
                       ELSE h.str
           digits == remove_0x_prefix(padded)
       IN IF (\E i \in 1..Len(digits) : digits[i] \notin Nibble)
             \/ Len(digits) % 2 = 1
            THEN [raise |-> TRUE, bytes |-> <<>>]
            ELSE [raise |-> FALSE, bytes |-> PackPairs(digits)]

\* eth_utils.to_hex: "0x" followed by two digits per byte; a list raises
\* TypeError.
to_hex(v) ==
  IF v.list THEN [raise |-> TRUE, str |-> <<>>]
  ELSE [raise |-> FALSE, str |-> <<0, HEXX>> \o BytesToNibbles(v.bytes)]

\* ------------------------------------------------------ int.from_bytes
\* int.from_bytes(b, 'big') as an arbitrary-precision integer.
RECURSIVE StripLeadingZeros(_)
StripLeadingZeros(bs) ==
  IF bs = <<>> THEN <<>>
  ELSE IF bs[1] = 0 THEN StripLeadingZeros(Tail(bs))
  ELSE bs

int_from_bytes_u64(bs) ==
  StripLeadingZeros(IF Len(bs) > 8 THEN SubSeq(bs, Len(bs) - 7, Len(bs)) ELSE bs)

int_from_bytes(bs) == StripLeadingZeros(bs)

\* ------------------------------------------------------ rlp.decode (strict)
RlpErr == [ok |-> FALSE, type |-> "bytes", length |-> 0, start |-> 0]

\* Python slice rlp[a:b]
Slice(rlp, a, b) ==
  SubSeq(rlp, a + 1, IF b < Len(rlp) THEN b ELSE Len(rlp))

RECURSIVE big_endian_to_int(_)
big_endian_to_int(bs) ==
  IF bs = <<>> THEN 0
  ELSE big_endian_to_int(SubSeq(bs, 1, Len(bs) - 1)) * 256 + bs[Len(bs)]

\* Long string / long list prefix: ll length bytes follow the first byte.
LongPrefix(rlp, start, type, ll) ==
  IF Slice(rlp, start + 1, start + 2) = <<0>> THEN RlpErr
  ELSE LET l == big_endian_to_int(Slice(rlp, start + 1, start + 1 + ll))
       IN IF l < 56 THEN RlpErr
          ELSE [ok |-> TRUE, type |-> type, length |-> l, start |-> start + 1 + ll]

consume_length_prefix(rlp, start) ==
  IF start >= Len(rlp) THEN RlpErr
  ELSE LET b0 == rlp[start + 1]
       IN IF b0 < 128
            THEN [ok |-> TRUE, type |-> "bytes", length |-> 1, start |-> start]
          ELSE IF b0 < 184
            THEN IF b0 - 128 = 1 /\ start + 1 >= Len(rlp) THEN RlpErr
                 ELSE IF b0 - 128 = 1 /\ rlp[start + 2] < 128 THEN RlpErr
                 ELSE [ok |-> TRUE, type |-> "bytes", length |-> b0 - 128,
                       start |-> start + 1]
          ELSE IF b0 < 192 THEN LongPrefix(rlp, start, "bytes", b0 - 183)
          ELSE IF b0 < 248
            THEN [ok |-> TRUE, type |-> "list", length |-> b0 - 192,
                  start |-> start + 1]
          ELSE LongPrefix(rlp, start, "list", b0 - 247)

ItemErr == [ok |-> FALSE, item |-> B(<<>>), end |-> 0]

RECURSIVE consume_payload(_, _, _, _)
RECURSIVE consume_items(_, _, _, _)

consume_payload(rlp, start, type, length) ==
  IF type = "bytes"
    THEN [ok |-> TRUE, item |-> B(Slice(rlp, start, start + length)),
          end |-> start + length]
    ELSE consume_items(rlp, start, start + length, <<>>)

\* while next_item_start < end: ...; next_item_start > end is an error
consume_items(rlp, next, end, acc) ==
  IF next < end
    THEN LET h == consume_length_prefix(rlp, next)
         IN IF ~h.ok THEN ItemErr
            ELSE LET r == consume_payload(rlp, h.start, h.type, h.length)
                 IN IF ~r.ok THEN ItemErr
                    ELSE consume_items(rlp, r.end, end, Append(acc, r.item))
  ELSE IF next > end THEN ItemErr
  ELSE [ok |-> TRUE, item |-> L(acc), end |-> next]

\* rlp.decode(x) with the default strict=True: x must be bytes, one item,
\* no trailing or missing bytes; every failure is a DecodingError.
rlp_decode(x) ==
  IF x.list THEN [raise |-> TRUE, value |-> B(<<>>)]
  ELSE LET h == consume_length_prefix(x.bytes, 0)
       IN IF ~h.ok THEN [raise |-> TRUE, value |-> B(<<>>)]
          ELSE LET r == consume_payload(x.bytes, h.start, h.type, h.length)
               IN IF ~r.ok \/ r.end # Len(x.bytes)
                    THEN [raise |-> TRUE, value |-> B(<<>>)]
                    ELSE [raise |-> FALSE, value |-> r.item]

\* ------------------------------------------------ analyze_account_leaves
PATH_ACCOUNT_TRIE == "PATH_ACCOUNT_TRIE"

NoLeaf ==
  [AddressHash |-> <<>>, Nonce |-> <<>>, Balance |-> <<>>, StorageRoot |-> <<>>,
   CodeHash |-> <<>>, Path |-> <<>>, Operation |-> ""]

\* Outcome of one pass through the loop body: the statement that ended it.
Continue(line) == [kind |-> "continue", line |-> line, leaf |-> NoLeaf]
Raise(line) == [kind |-> "raise", line |-> line, leaf |-> NoLeaf]
Emit(leaf) == [kind |-> "append", line |-> 128, leaf |-> leaf]

\* account_trie_df = df[df['Type'] == 'PATH_ACCOUNT_TRIE']
account_trie_rows_all(frame) == frame

account_trie_rows(frame) ==
  SelectSeq(frame, LAMBDA row : row.Type = PATH_ACCOUNT_TRIE)

\* pd.isna(value_hex) or value_hex == ''
SkipValue(value_hex) == value_hex.isna \/ value_hex.str = <<>>

\* len(key_bytes) == 0 or key_bytes[0] != 0x41
BadTag(key_bytes) == Len(key_bytes) = 0 \/ key_bytes[1] # 65

\* not is_list(node) or len(node) != 2
NotShortNode_nolen(node) == ~is_list(node) \/ PyLen(node) < 2

NotShortNode(node) == ~is_list(node) \/ PyLen(node) # 2

\* if not is_leaf: continue
IsExtension_never(d) == FALSE

IsExtension(d) == ~d.is_leaf

\* not is_list(account) or len(account) != 4
NotAccount(account) == ~is_list(account) \/ PyLen(account) # 4

\* int.from_bytes(x, 'big') if x else 0: an empty byte string and an empty
\* list are both falsy; int.from_bytes of a list of non-integers raises.
IntField(x) ==
  IF PyLen(x) = 0 THEN [raise |-> FALSE, int |-> <<>>]
  ELSE IF x.list THEN [raise |-> TRUE, int |-> <<>>]
  ELSE [raise |-> FALSE, int |-> int_from_bytes(x.bytes)]

\* Lines 117-138: the inner try block; its bare except continues.
InnerTry(row, path, addr_hash, node_val) ==
  LET account == rlp_decode(node_val)
  IN IF account.raise THEN Continue(138)
     ELSE IF NotAccount(account.value) THEN Continue(121)
     ELSE LET a == account.value.items
              nonce == IntField(a[1])
              balance == IntField(a[2])
              storage_root == to_hex(a[3])
              code_hash == to_hex(a[4])
          IN IF nonce.raise \/ balance.raise \/ storage_root.raise
                \/ code_hash.raise
               THEN Continue(138)
               ELSE Emit([AddressHash |-> addr_hash,
                          Nonce |-> nonce.int,
                          Balance |-> balance.int,
                          StorageRoot |-> storage_root.str,
                          CodeHash |-> code_hash.str,
                          Path |-> to_hex(B(path)).str,
                          Operation |-> row.Operation])

\* Lines 101-115: reconstruct the full path and the address hash.
LeafStage(row, path, key_nibbles, node_val) ==
  LET path_nibbles == BytesToNibbles(path)
      full_nibbles == path_nibbles \o key_nibbles
      addr_hash_bytes == nibbles_to_bytes(full_nibbles)
  IN IF addr_hash_bytes.none THEN Continue(113)
     ELSE InnerTry(row, path, to_hex(B(addr_hash_bytes.bytes)).str, node_val)

\* Lines 82-99: decode the node and classify it.
NodeStage(row, path, value_bytes) ==
  LET node == rlp_decode(B(value_bytes))
  IN IF node.raise THEN Continue(86)
     ELSE IF NotShortNode(node.value) THEN Continue(90)
     ELSE LET node_key == node.value.items[1]
              node_val == node.value.items[2]
              d == decode_compact_encoding(node_key)
          IN IF d.raise THEN Raise(96)
             ELSE IF IsExtension(d) THEN Continue(99)
             ELSE LeafStage(row, path, d.nibbles, node_val)

\* Lines 65-80: the outer try block up to the path.
TryBody(row) ==
  IF SkipValue(row.ValueHex) THEN Continue(70)
  ELSE LET key_bytes == to_bytes(row.KeyHex)
           value_bytes == to_bytes(row.ValueHex)
       IN IF key_bytes.raise THEN Raise(72)
          ELSE IF value_bytes.raise THEN Raise(73)
          ELSE IF BadTag(key_bytes.bytes) THEN Continue(77)
          ELSE NodeStage(row, Tail(key_bytes.bytes), value_bytes.bytes)

\* Lines 140-141: except Exception as e: continue
OuterExcept_propagate(o) == o

OuterExcept(o) == IF o.kind = "raise" THEN Continue(141) ELSE o

\* One iteration of the for loop over account_trie_df.
LoopBody(row) == OuterExcept(TryBody(row))

\* -------------------------------------------- inputs of the compact codec
SeqsUpTo(S, n) == UNION {[1..m -> S] : m \in 0..n}

NibblePaths == SeqsUpTo(Nibble, MaxNibbles)

\* Trailing bytes of directly chosen keys.
SampleBytes == {0, 1, 15, 16, 52, 128, 171, 255}

CompactKeys ==
  {<<>>} \cup {<<b>> \o t : b \in Byte, t \in SeqsUpTo(SampleBytes, MaxKeyBytes - 1)}

\* ------------------------------------------------ inputs of the pipeline
\* RLP encoding, used to build the ValueHex cells of the input rows.
RECURSIVE rlp_encode(_)
RECURSIVE rlp_encode_all(_)
rlp_encode_all(its) ==
  IF its = <<>> THEN <<>> ELSE rlp_encode(Head(its)) \o rlp_encode_all(Tail(its))

rlp_encode(v) ==
  IF v.list
    THEN LET payload == rlp_encode_all(v.items)
         IN IF Len(payload) < 56 THEN <<192 + Len(payload)>> \o payload
            ELSE <<248, Len(payload)>> \o payload
  ELSE IF Len(v.bytes) = 1 /\ v.bytes[1] < 128 THEN v.bytes
  ELSE IF Len(v.bytes) < 56 THEN <<128 + Len(v.bytes)>> \o v.bytes
  ELSE <<184, Len(v.bytes)>> \o v.bytes

HexOf(bs) == Text(BytesToNibbles(bs))

Zeros(n) == [i \in 1..n |-> 0]

\* compact-encoded key fragments
FragLeafEven == <<32, 52>>
FragLeafOdd == <<51>>
FragLeafEmpty == <<32>>
FragExtEven == <<0, 52>>
FragExtOdd == <<19>>
FragEmpty == <<>>
Fragments ==
  {FragLeafEven, FragLeafOdd, FragLeafEmpty, FragExtEven, FragExtOdd, FragEmpty}

Root == <<170, 187>>
Hash == <<204>>

Acct(n, b, r, h) == L(<<n, b, r, h>>)
AcctGood == Acct(B(<<1>>), B(<<3, 232>>), B(Root), B(Hash))
AcctZero == Acct(B(<<>>), B(<<>>), B(Root), B(Hash))
AcctWide == Acct(B(<<0, 5>>), B(<<1, 0, 0, 0, 0, 0, 0, 0, 7>>), B(Root), B(Hash))
AcctNonceEmptyList == Acct(L(<<>>), B(<<9>>), B(Root), B(Hash))
AcctBalEmptyList == Acct(B(<<9>>), L(<<>>), B(Root), B(Hash))
AcctNonceList == Acct(L(<<B(<<1>>)>>), B(<<9>>), B(Root), B(Hash))
AcctBalList == Acct(B(<<9>>), L(<<L(<<>>)>>), B(Root), B(Hash))
AcctRootList == Acct(B(<<1>>), B(<<9>>), L(<<>>), B(Hash))
AcctHashList == Acct(B(<<1>>), B(<<9>>), B(Root), L(<<B(Hash)>>))
AcctThree == L(<<B(<<1>>), B(<<9>>), B(Root)>>)
AcctFive == L(<<B(<<1>>), B(<<9>>), B(Root), B(Hash), B(<<>>)>>)
AcctBytes == B(<<7, 7>>)
AcctScenario == Acct(B(<<1>>), B(<<3, 232>>), B(Zeros(32)), B(Zeros(32)))

Payloads ==
  {AcctGood, AcctZero, AcctWide, AcctNonceEmptyList, AcctBalEmptyList,
   AcctNonceList, AcctBalList, AcctRootList, AcctHashList, AcctThree,
   AcctFive, AcctBytes, AcctScenario}

ShortNode(frag, acct) == L(<<B(frag), B(rlp_encode(acct))>>)
GoodNode == ShortNode(FragLeafEven, AcctGood)

NodeValues ==
  {ShortNode(fr, AcctGood) : fr \in Fragments}
  \cup {ShortNode(FragLeafEven, a) : a \in Payloads}
  \cup {L(<<B(FragLeafEven), B(<<197, 1>>)>>),
        L(<<B(FragLeafEven), B(<<>>)>>),
        L(<<B(FragLeafEven), AcctGood>>),
        L(<<L(<<>>), B(rlp_encode(AcctGood))>>),
        L(<<L(<<B(FragLeafEven)>>), B(rlp_encode(AcctGood))>>),
        L(<<B(FragLeafEven), B(rlp_encode(AcctGood)), B(<<>>)>>),
        L([i \in 1..17 |-> B(<<>>)]),
        L(<<>>),
        B(<<1, 2, 3>>)}

GoodValueHex == HexOf(rlp_encode(GoodNode))

\* hex texts that are damaged or unusual
DamagedValues ==
  LET g == GoodValueHex.str
  IN {NaN, Text(<<>>),
      Text(SubSeq(g, 1, Len(g) - 2)),
      Text(SubSeq(g, 1, Len(g) - 1)),
      Text(SubSeq(g, 1, 4) \o <<BADCHAR>> \o SubSeq(g, 6, Len(g))),
      Text(g \o <<0, 0>>),
      Text(<<0, HEXX>> \o g),
      Text(<<11, 8, 0>>),
      Text(<<8, 1, 0, 5>>)}

ValueCells == {HexOf(rlp_encode(v)) : v \in NodeValues} \cup DamagedValues

GoodKeyHex == HexOf(<<65, 171>>)

KeyCells ==
  {GoodKeyHex, HexOf(<<65>>), HexOf(<<65, 171, 205>>), HexOf(<<79, 171>>),
   NaN, Text(<<>>), Text(<<4, 1, 10>>), Text(<<4, 1, BADCHAR, 11>>),
   Text(<<0, HEXX, 4, 1, 10, 11>>)}

Operations == {"GET", "PUT", "DELETE"}
Types == {PATH_ACCOUNT_TRIE, "PATH_STORAGE_TRIE"}

Row(op, k, v, ty) == [Operation |-> op, KeyHex |-> k, ValueHex |-> v, Type |-> ty]

Rows ==
  {Row("PUT", GoodKeyHex, v, PATH_ACCOUNT_TRIE) : v \in ValueCells}
  \cup {Row("GET", k, GoodValueHex, PATH_ACCOUNT_TRIE) : k \in KeyCells}
  \cup {Row("GET", NaN, NaN, PATH_ACCOUNT_TRIE),
        Row("DELETE", GoodKeyHex, GoodValueHex, PATH_ACCOUNT_TRIE),
        Row("PUT", HexOf(<<65>>), HexOf(rlp_encode(ShortNode(FragLeafOdd, AcctGood))),
            PATH_ACCOUNT_TRIE),
        Row("PUT", GoodKeyHex, GoodValueHex, "PATH_STORAGE_TRIE"),
        Row("GET", NaN, GoodValueHex, "PATH_STORAGE_TRIE")}

\* ------------------------------------------------------------ the program
\* leaves.append({...})
AppendLeaf_front(ls, leaf) == <<leaf>> \o ls

AppendLeaf(ls, leaf) == Append(ls, leaf)

account_trie_df == account_trie_rows(df)

\* The loop body is a function of the row alone: its outcome for every
\* input row.
LoopOutcome == [row \in Rows |-> LoopBody(row)]

Init ==
  /\ df \in SeqsUpTo(Rows, MaxRows)
  /\ pos = 0
  /\ leaves = <<>>
  /\ pc = "loop"
  /\ mode = "off" /\ p = <<>> /\ f = FALSE /\ key = <<>>
  /\ nibbles = <<>> /\ is_leaf = FALSE /\ cpc = "off"

\* for idx, row in account_trie_df.iterrows(): one iteration
Iterate ==
  /\ pc = "loop"
  /\ pos < Len(account_trie_df)
  /\ LET o == LoopOutcome[account_trie_df[pos + 1]]
     IN /\ leaves' = IF o.kind = "append" THEN AppendLeaf(leaves, o.leaf) ELSE leaves
        /\ pc' = IF o.kind = "raise" THEN "raised" ELSE "loop"
        /\ pos' = pos + 1
  /\ UNCHANGED <<df, compactVars>>

\* return leaves
Return ==
  /\ pc = "loop"
  /\ pos = Len(account_trie_df)
  /\ pc' = "done"
  /\ UNCHANGED <<df, pos, leaves, compactVars>>

Next == Iterate \/ Return

Spec == Init /\ [][Next]_vars

\* ------------------------------------------ the compact codec on its own
InitCompact ==
  /\ df = <<>> /\ pos = 0 /\ leaves = <<>> /\ pc = "off"
  /\ nibbles = <<>> /\ is_leaf = FALSE
  /\ \/ /\ mode = "roundtrip" /\ cpc = "input"
        /\ p \in NibblePaths /\ f \in BOOLEAN /\ key = <<>>
     \/ /\ mode = "direct" /\ cpc = "encoded"
        /\ p = <<>> /\ f = FALSE /\ key \in CompactKeys

Encode ==
  /\ cpc = "input"
  /\ key' = encode_compact(p, f)
  /\ cpc' = "encoded"
  /\ UNCHANGED <<pipeVars, mode, p, f, nibbles, is_leaf>>

Decode ==
  /\ cpc = "encoded"
  /\ LET d == decode_compact_encoding(B(key))
     IN /\ nibbles' = d.nibbles
        /\ is_leaf' = d.is_leaf
        /\ cpc' = IF d.raise THEN "raised" ELSE "decoded"
  /\ UNCHANGED <<pipeVars, mode, p, f, key>>

NextCompact == Encode \/ Decode

SpecCompact == InitCompact /\ [][NextCompact]_vars

\* ================================================================ claims
\* ---------------------------------------------------------------- C1
\* C1: decoding the hex-prefix encoding of a nibble path p and flag f gives
\* back exactly (p, f), for every path (empty and odd lengths included).
C1_RoundTrip ==
  (mode = "roundtrip" /\ cpc \in {"decoded", "raised"})
    => (cpc = "decoded" /\ nibbles = p /\ is_leaf = f)

C1_Witness ==
  mode = "roundtrip" /\ cpc = "decoded" /\ Len(p) = MaxNibbles /\ f
  /\ key # <<>> /\ nibbles = p

\* ---------------------------------------------------------------- C2
\* C2: the empty key decodes to ([], false); otherwise is_leaf is bit 2 of the
\* first byte's high nibble, the low nibble of the first byte is the first
\* path nibble exactly when bit 1 is set, and each later byte contributes its
\* high then its low nibble, so the path has 2*(len-1) (+1 if odd) nibbles.
LeafFlags == {2, 3, 6, 7, 10, 11, 14, 15}
OddFlags == {1, 3, 5, 7, 9, 11, 13, 15}

C2_DecodeShape ==
  (cpc \in {"decoded", "raised"}) =>
    /\ cpc = "decoded"
    /\ IF key = <<>> THEN nibbles = <<>> /\ is_leaf = FALSE
       ELSE LET hi == key[1] \div 16
                off == IF hi \in OddFlags THEN 1 ELSE 0
            IN /\ is_leaf = (hi \in LeafFlags)
               /\ Len(nibbles) = 2 * (Len(key) - 1) + off
               /\ (off = 1 => nibbles[1] = key[1] % 16)
               /\ \A j \in 2..Len(key) :
                     /\ nibbles[off + 2 * (j - 2) + 1] = key[j] \div 16
                     /\ nibbles[off + 2 * (j - 2) + 2] = key[j] % 16

C2_Witness ==
  mode = "direct" /\ cpc = "decoded" /\ Len(key) = MaxKeyBytes
  /\ key[1] \div 16 = 3 /\ is_leaf /\ Len(nibbles) = 2 * MaxKeyBytes - 1

\* ------------------------------------------------- rows and their stages
\* The row the next iteration handles, and the row the last one handled.
Stepping == pc = "loop" /\ pos < Len(account_trie_df)
Cur == account_trie_df[pos + 1]
Last == account_trie_df[pos]

HasValue(row) == ~row.ValueHex.isna /\ row.ValueHex.str # <<>>
KeyOf(row) == to_bytes(row.KeyHex)
ValueOf(row) == to_bytes(row.ValueHex)
NodeOf(row) == rlp_decode(B(ValueOf(row).bytes))

\* the value decodes, and to a two-element list
Decodes(row) == HasValue(row) /\ ~ValueOf(row).raise /\ ~NodeOf(row).raise
TwoList(row) ==
  Decodes(row) /\ NodeOf(row).value.list /\ Len(NodeOf(row).value.items) = 2
FragOf(row) == decode_compact_encoding(NodeOf(row).value.items[1])
PayloadOf(row) == NodeOf(row).value.items[2]

\* the key is 0x41 followed by the prefix bytes
TaggedKey(row) ==
  ~KeyOf(row).raise /\ Len(KeyOf(row).bytes) >= 1 /\ KeyOf(row).bytes[1] = 65
PrefixNibbles(row) ==
  LET kb == KeyOf(row).bytes
  IN [i \in 1..(2 * (Len(kb) - 1)) |->
        IF i % 2 = 1 THEN kb[1 + (i + 1) \div 2] \div 16
                     ELSE kb[1 + i \div 2] % 16]

\* ---------------------------------------------------------------- C3
\* C3: a record whose value is a two-element list with a key fragment that
\* decodes with is_leaf = false (an extension node, the empty fragment
\* included) never adds an AccountLeaf.
ExtensionRecord(row) ==
  TwoList(row) /\ ~FragOf(row).raise /\ ~FragOf(row).is_leaf

ExtensionRecords == {row \in Rows : ExtensionRecord(row)}

C3_ExtensionExcluded ==
  [][(Stepping /\ Cur \in ExtensionRecords) => leaves' = leaves]_vars

C3_Witness ==
  /\ pos >= 1 /\ pc = "loop"
  /\ ExtensionRecord(Last) /\ TaggedKey(Last)
  /\ FragOf(Last).nibbles # <<>>
  /\ leaves = <<>>

\* ---------------------------------------------------------------- C4
\* C4: when the prefix nibbles (two per key byte after the tag) plus the
\* fragment nibbles are odd in number, the record adds no AccountLeaf.
OddPathRecord(row) ==
  /\ ~KeyOf(row).raise /\ Len(KeyOf(row).bytes) >= 1
  /\ TwoList(row) /\ ~FragOf(row).raise
  /\ (2 * (Len(KeyOf(row).bytes) - 1) + Len(FragOf(row).nibbles)) % 2 = 1

OddPathRecords == {row \in Rows : OddPathRecord(row)}

C4_OddPathExcluded ==
  [][(Stepping /\ Cur \in OddPathRecords) => leaves' = leaves]_vars

C4_Witness ==
  /\ pos >= 1 /\ pc = "loop"
  /\ OddPathRecord(Last) /\ TaggedKey(Last) /\ FragOf(Last).is_leaf
  /\ leaves = <<>>

\* ---------------------------------------------------------------- C5
\* C5: an account-trie record with key 0x41 + prefix and a value that is a
\* two-element list [leaf-flagged fragment, well-formed 4-field account
\* payload] of even combined nibble count adds exactly one AccountLeaf, whose
\* address bytes are the prefix nibbles followed by the fragment nibbles,
\* packed two per byte, first nibble in the high bits.
AccountOf(row) == rlp_decode(PayloadOf(row))
WellFormedAccount(row) ==
  /\ ~PayloadOf(row).list
  /\ ~AccountOf(row).raise
  /\ AccountOf(row).value.list
  /\ Len(AccountOf(row).value.items) = 4
  /\ \A i \in 1..4 : ~AccountOf(row).value.items[i].list

CompleteLeafRecord(row) ==
  /\ row.Type = PATH_ACCOUNT_TRIE
  /\ TaggedKey(row)
  /\ TwoList(row)
  /\ ~NodeOf(row).value.items[1].list
  /\ ~FragOf(row).raise /\ FragOf(row).is_leaf
  /\ (Len(PrefixNibbles(row)) + Len(FragOf(row).nibbles)) % 2 = 0
  /\ WellFormedAccount(row)

\* the bytes a "0x..." text denotes
AddressBytes(s) ==
  [i \in 1..((Len(s) - 2) \div 2) |-> s[2 * i + 1] * 16 + s[2 * i + 2]]

ExpectedAddress(row) ==
  LET ns == PrefixNibbles(row) \o FragOf(row).nibbles
  IN [i \in 1..(Len(ns) \div 2) |-> ns[2 * i - 1] * 16 + ns[2 * i]]

CompleteLeafRecords == {row \in Rows : CompleteLeafRecord(row)}
ExpectedAddresses == [row \in CompleteLeafRecords |-> ExpectedAddress(row)]

C5_LeafAddress ==
  [][(Stepping /\ Cur \in CompleteLeafRecords) =>
       /\ Len(leaves') = Len(leaves) + 1
       /\ SubSeq(leaves', 1, Len(leaves)) = leaves
       /\ LET a == leaves'[Len(leaves')].AddressHash
          IN /\ Len(a) >= 2 /\ a[1] = 0 /\ a[2] = HEXX /\ Len(a) % 2 = 0
             /\ AddressBytes(a) = ExpectedAddresses[Cur]]_vars

\* prefix 0xAB and fragment [3,4] give the address [0xAB, 0x34]
C5_Witness ==
  /\ pos >= 1 /\ CompleteLeafRecord(Last)
  /\ PrefixNibbles(Last) = <<10, 11>> /\ FragOf(Last).nibbles = <<3, 4>>
  /\ Len(leaves) = 1
  /\ AddressBytes(leaves[1].AddressHash) = <<171, 52>>

\* ---------------------------------------------------------------- C6
\* C6: Nonce and Balance of every emitted AccountLeaf are the big-endian
\* unsigned values of the first and second payload byte strings: the empty
\* string is 0 and no width limit applies (more than 8 bytes keep their
\* full value).
HasAccount(row) ==
  TwoList(row) /\ ~AccountOf(row).raise /\ AccountOf(row).value.list
AccountFields ==
  [row \in Rows |-> IF HasAccount(row) THEN AccountOf(row).value.items ELSE <<>>]

\* n is the integer (base 256, no leading zero digit) that bs denotes
IsValueOf(n, bs) ==
  /\ n = <<>> \/ n[1] # 0
  /\ Len(n) <= Len(bs)
  /\ \A i \in 1..Len(bs) :
       IF i <= Len(bs) - Len(n) THEN bs[i] = 0
       ELSE bs[i] = n[i - (Len(bs) - Len(n))]
  /\ (bs = <<>> => n = <<>>)
  /\ (Len(bs) <= 3 => big_endian_to_int(n) = big_endian_to_int(bs))

C6_NonceBalance ==
  [][(Stepping /\ leaves' # leaves) =>
       LET a == AccountFields[Cur]
           lf == leaves'[Len(leaves')]
       IN /\ Len(a) = 4
          /\ (~a[1].list => IsValueOf(lf.Nonce, a[1].bytes))
          /\ (~a[2].list => IsValueOf(lf.Balance, a[2].bytes))]_vars

C6_Witness ==
  /\ pc = "done" /\ pos = 2 /\ Len(leaves) = 2
  /\ AccountFields[account_trie_df[1]][1] = B(<<>>)
  /\ leaves[1].Nonce = <<>> /\ leaves[1].Balance = <<>>
  /\ Len(AccountFields[account_trie_df[2]][2].bytes) > 8
  /\ Len(leaves[2].Balance) > 8
  /\ leaves[2].Nonce = <<5>>

\* ---------------------------------------------------------------- C7
\* C7: a payload that decodes to something other than a list of exactly four
\* byte strings (not a list, another element count, or a nested list in any
\* of the four positions, the empty list in the nonce or balance position
\* included) adds no AccountLeaf.
ShapeMismatchRecord(row) ==
  /\ TwoList(row)
  /\ ~AccountOf(row).raise
  /\ \/ ~AccountOf(row).value.list
     \/ Len(AccountOf(row).value.items) # 4
     \/ \E i \in 1..4 : AccountOf(row).value.items[i].list
ShapeMismatchRecords == {row \in Rows : ShapeMismatchRecord(row)}

C7_ShapeMismatchExcluded ==
  [][(Stepping /\ Cur \in ShapeMismatchRecords) => leaves' = leaves]_vars

\* ---------------------------------------------------------------- C8
\* C8: a record that fails at any stage (KeyHex or ValueHex that is not
\* hexadecimal, a truncated or undecodable value, a wrong node shape, an odd
\* path, a bad account payload) adds no leaf and does not stop the loop:
\* every later record is processed, and the leaves are those of the input
\* without the failing records.
BadKeyHex(row) == KeyOf(row).raise
BadValueHex(row) == ValueOf(row).raise
Undecodable(row) == ~ValueOf(row).raise /\ NodeOf(row).raise
WrongShape(row) ==
  /\ ~ValueOf(row).raise /\ ~NodeOf(row).raise
  /\ \/ ~NodeOf(row).value.list
     \/ Len(NodeOf(row).value.items) # 2
     \/ FragOf(row).raise
BadPayload(row) ==
  /\ TwoList(row)
  /\ \/ AccountOf(row).raise
     \/ ~AccountOf(row).value.list
     \/ Len(AccountOf(row).value.items) # 4
     \/ \E i \in 1..2 : AccountOf(row).value.items[i].list
                          /\ AccountOf(row).value.items[i].items # <<>>
     \/ \E i \in 3..4 : AccountOf(row).value.items[i].list

FailingRecord(row) ==
  \/ BadKeyHex(row) \/ BadValueHex(row) \/ Undecodable(row)
  \/ WrongShape(row) \/ OddPathRecord(row) \/ BadPayload(row)
FailingRecords == {row \in Rows : FailingRecord(row)}

\* the leaves of a run over rows, one row after the other
RECURSIVE RunLeaves(_)
RunLeaves(rows) ==
  IF rows = <<>> THEN <<>>
  ELSE (IF LoopOutcome[Head(rows)].kind = "append"
          THEN <<LoopOutcome[Head(rows)].leaf>> ELSE <<>>)
       \o RunLeaves(Tail(rows))

Emitting == {k \in 1..Len(df) : /\ df[k].Type = PATH_ACCOUNT_TRIE
                                 /\ LoopOutcome[df[k]].kind = "append"}
Rank(k) == Cardinality({m \in Emitting : m <= k})

C9_OrderPreserved ==
  /\ [][Stepping =>
          \/ leaves' = leaves
          \/ /\ Len(leaves') = Len(leaves) + 1
             /\ SubSeq(leaves', 1, Len(leaves)) = leaves]_vars
  /\ [](pc = "done" =>
          /\ Len(leaves) = Cardinality(Emitting)
          /\ \A k \in Emitting : leaves[Rank(k)] = LoopOutcome[df[k]].leaf)

C9_Witness ==
  /\ pc = "done" /\ Len(df) = 2 /\ Len(leaves) = 2
  /\ leaves[1] # leaves[2]
  /\ leaves[1] = LoopOutcome[df[1]].leaf

NotTwoBytesRecord(row) ==
  /\ Decodes(row)
  /\ \/ ~NodeOf(row).value.list
     \/ Len(NodeOf(row).value.items) # 2
     \/ NodeOf(row).value.items[1].list
     \/ NodeOf(row).value.items[2].list
NotTwoBytesRecords == {row \in Rows : NotTwoBytesRecord(row)}

C11_OnlyShortNodes ==
  [][(Stepping /\ Cur \in NotTwoBytesRecords) =>
       (leaves' = leaves /\ pc' = "loop" /\ pos' = pos + 1)]_vars

\* a two-element list with a non-empty list as key fragment, then a list of
\* three elements, both under a well-formed key
C11_Witness ==
  /\ pc = "done" /\ pos = 2 /\ leaves = <<>>
  /\ TaggedKey(account_trie_df[1]) /\ TaggedKey(account_trie_df[2])
  /\ TwoList(account_trie_df[1])
  /\ NodeOf(account_trie_df[1]).value.items[1].list
  /\ NodeOf(account_trie_df[1]).value.items[1].items # <<>>
  /\ Decodes(account_trie_df[2])
  /\ NodeOf(account_trie_df[2]).value.list
  /\ Len(NodeOf(account_trie_df[2]).value.items) = 3

\* ---------------------------------------------------------------- C12
\* C12: a leaf is added for a record only if its Type is PATH_ACCOUNT_TRIE,
\* its ValueHex is present and not empty and its decoded key is not empty
\* and starts with 0x41; the leaf's Path is the key bytes after that first
\* byte and its Operation is the record's Operation.
EligibleRecord(row) ==
  row.Type = PATH_ACCOUNT_TRIE /\ HasValue(row) /\ TaggedKey(row)
EligibleRecords == {row \in Rows : EligibleRecord(row)}
PathBytes == [row \in EligibleRecords |-> Tail(KeyOf(row).bytes)]

C12_LeafOrigin ==
  /\ [][(Stepping /\ leaves' # leaves) =>
          /\ Cur \in EligibleRecords
          /\ LET lf == leaves'[Len(leaves')]
             IN /\ Len(lf.Path) >= 2 /\ lf.Path[1] = 0 /\ lf.Path[2] = HEXX
                /\ Len(lf.Path) % 2 = 0
                /\ AddressBytes(lf.Path) = PathBytes[Cur]
                /\ lf.Operation = Cur.Operation]_vars
  /\ [](Len(leaves) <= Cardinality({k \in 1..Len(df) : df[k] \in EligibleRecords}))

\* a storage-trie record that would otherwise give a leaf, then an
\* account-trie record that gives one
C12_Witness ==
  /\ pc = "done" /\ Len(df) = 2 /\ Len(leaves) = 1
  /\ df[1].Type # PATH_ACCOUNT_TRIE /\ LoopOutcome[df[1]].kind = "append"
  /\ df[2] \in EligibleRecords /\ df[2].Operation = "DELETE"
  /\ leaves[1].Operation = "DELETE"
  /\ AddressBytes(leaves[1].Path) = <<171>>

====
